---- MODULE Spec2Model ----
(***************************************************************************)
(* Model of .github/scripts/check-md-code-blocks.js: the fence scanner,    *)
(* the body auto-fix transform, the status-comment lookup and the two      *)
(* workflow variants (auto-fix, lines 100-213; scan-only, lines 237-370).  *)
(*                                                                         *)
(* A text is a sequence of characters, a body a non-empty sequence of      *)
(* lines (what body.split yields on newlines; lines.join is its inverse).  *)
(***************************************************************************)
EXTENDS Integers, Sequences, FiniteSets, TLC

(***************************************************************************)
(* Characters.  BT is the backtick, SP stands for any whitespace           *)
(* character (\s), every other character is non-whitespace (\S).           *)
(***************************************************************************)
BT == "BACKTICK"
SP == " "

IsSpace(c) == c = SP

Str3(a, b, c) == <<a, b, c>>

FENCE == Str3(BT, BT, BT)

PYTHON_FENCE == FENCE \o <<"p", "y", "t", "h", "o", "n">>

ELLIPSIS == Str3(".", ".", ".")

MAX_CODE_PREVIEW == 50

LOAD_COMMENTS_PER_PAGE == 10

FULL_PAGE == 100

(***************************************************************************)
(* Bounds of the checked instances.                                        *)
(***************************************************************************)
MaxLines == 3

\* a line of n characters w
Repeat(n) == [k \in 1..n |-> "w"]

\* one character more than a preview holds
LONG_LINE == Repeat(MAX_CODE_PREVIEW + 1)

\* exactly what a preview holds, between whitespace
FULL_LINE == <<SP>> \o Repeat(MAX_CODE_PREVIEW) \o <<SP>>

(***************************************************************************)
(* The lines bodies are built from: blank lines, ordinary text, bare       *)
(* fence markers (with and without trailing whitespace), labelled fence    *)
(* markers, a marker followed by whitespace and text, an indented marker,  *)
(* and lines at and beyond the length of a preview.                        *)
(***************************************************************************)
LineSet ==
  { <<>>,
    LONG_LINE,
    FULL_LINE,
    <<SP>>,
    <<"x">>,
    <<SP, "y", SP>>,
    FENCE,
    FENCE \o <<SP>>,
    FENCE \o <<"j", "s">>,
    FENCE \o <<SP, "z">>,
    <<SP>> \o FENCE }

Bodies == UNION { [1..n -> LineSet] : n \in 1..MaxLines }

(***************************************************************************)
(* The bodies of the threads the workflows run on: clean ones, ones the    *)
(* fix repairs and ones with an unlabelled fence the fix leaves alone.     *)
(***************************************************************************)
MaxRunLines == 1

RunLineSet ==
  { <<"x">>,
    FENCE,
    FENCE \o <<SP, "z">> }

RunBodies == UNION { [1..n -> RunLineSet] : n \in 1..MaxRunLines }

(***************************************************************************)
(* String primitives of the source, on character sequences.                *)
(***************************************************************************)
\* String.prototype.startsWith of the triple-backtick marker
startsWithFence(line) ==
  /\ Len(line) >= 3
  /\ SubSeq(line, 1, 3) = FENCE

RECURSIVE SkipSpaceLeft(_, _)
SkipSpaceLeft(s, i) ==
  IF i <= Len(s) /\ IsSpace(s[i]) THEN SkipSpaceLeft(s, i + 1) ELSE i

RECURSIVE SkipSpaceRight(_, _)
SkipSpaceRight(s, j) ==
  IF j >= 1 /\ IsSpace(s[j]) THEN SkipSpaceRight(s, j - 1) ELSE j

\* String.prototype.trim()
trim(s) == SubSeq(s, SkipSpaceLeft(s, 1), SkipSpaceRight(s, Len(s)))

RECURSIVE NonSpaceRun(_, _)
\* the end of the greedy \S* run that starts at position i
NonSpaceRun(s, i) ==
  IF i <= Len(s) /\ ~IsSpace(s[i]) THEN NonSpaceRun(s, i + 1) ELSE i

\* line.match(/^BT BT BT(\S*)/) is non-null
matchScan(line) == startsWithFence(line)

\* match[1] of /^BT BT BT(\S*)/
captureLang(line) == SubSeq(line, 4, NonSpaceRun(line, 4) - 1)

\* lines[i].match(/^BT BT BT(\s*)$/) is non-null
matchFix(line) ==
  /\ startsWithFence(line)
  /\ \A k \in 4..Len(line) : IsSpace(line[k])

(***************************************************************************)
(* findMissingLangBlocks.  An error message is the line of text            *)
(*   Line ${i + 1}: Missing language for code block. Code starts with:     *)
(*   "${codePreview}"                                                      *)
(* with the number in decimal digits and the preview between quotes.       *)
(***************************************************************************)
DIGITS == <<"0", "1", "2", "3", "4", "5", "6", "7", "8", "9">>

RECURSIVE toDecimal(_)
\* the decimal digits a template literal writes for a non-negative integer
toDecimal(n) ==
  IF n < 10 THEN <<DIGITS[n + 1]>>
  ELSE toDecimal(n \div 10) \o <<DIGITS[(n % 10) + 1]>>

ErrorMessage(n, codePreview) ==
  <<"Line", SP>> \o toDecimal(n)
    \o <<":", SP, "Missing language for code block. Code starts with:", SP, "\"">>
    \o codePreview \o <<"\"">>

RECURSIVE previewLoop(_, _)
\* the inner for loop (j from i + 1), lines are 1-based here
previewLoop(lines, j) ==
  IF j > Len(lines) THEN <<>>
  ELSE IF trim(lines[j]) # <<>> /\ ~startsWithFence(lines[j])
       THEN trim(lines[j])
       ELSE previewLoop(lines, j + 1)

\* truncatePreview cutting from MAX_CODE_PREVIEW characters on
truncatePreviewFrom50(codePreview) ==
  IF Len(codePreview) >= MAX_CODE_PREVIEW
  THEN SubSeq(codePreview, 1, MAX_CODE_PREVIEW) \o ELLIPSIS
  ELSE codePreview

truncatePreview(codePreview) ==
  IF Len(codePreview) > MAX_CODE_PREVIEW
  THEN SubSeq(codePreview, 1, MAX_CODE_PREVIEW) \o ELLIPSIS
  ELSE codePreview

RECURSIVE scanLoopNoClose(_, _, _, _)
\* scanLoop without the inside-fence test: every bare marker is reported
scanLoopNoClose(lines, i, insideCode, errors) ==
  IF i > Len(lines) THEN errors
  ELSE IF matchScan(lines[i]) /\ captureLang(lines[i]) = <<>>
       THEN scanLoopNoClose(lines, i + 1, TRUE,
              Append(errors,
                     ErrorMessage(i, truncatePreview(previewLoop(lines, i + 1)))))
       ELSE scanLoopNoClose(lines, i + 1, insideCode, errors)

RECURSIVE scanLoop(_, _, _, _)
\* the outer for loop; i is the 1-based line number (i + 1 of the source)
scanLoop(lines, i, insideCode, errors) ==
  IF i > Len(lines) THEN errors
  ELSE IF matchScan(lines[i])
       THEN IF ~insideCode
            THEN IF captureLang(lines[i]) = <<>>
                 THEN scanLoop(lines, i + 1, TRUE,
                        Append(errors,
                               ErrorMessage(i,
                                 truncatePreview(previewLoop(lines, i + 1)))))
                 ELSE scanLoop(lines, i + 1, TRUE, errors)
            ELSE scanLoop(lines, i + 1, FALSE, errors)
       ELSE scanLoop(lines, i + 1, insideCode, errors)

findMissingLangBlocks(text) == scanLoop(text, 1, FALSE, <<>>)

\* the inline scanner of the scan-only variant
inlineScan(text) == scanLoop(text, 1, FALSE, <<>>)

(***************************************************************************)
(* fixCodeBlocks.                                                          *)
(***************************************************************************)
RECURSIVE fixLoop(_, _, _, _)
fixLoop(lines, i, insideCode, fixed) ==
  IF i > Len(lines) THEN [fixedBody |-> lines, fixed |-> fixed]
  ELSE IF matchFix(lines[i]) /\ ~insideCode
       THEN fixLoop([lines EXCEPT ![i] = PYTHON_FENCE], i + 1, TRUE, TRUE)
       ELSE IF startsWithFence(lines[i]) /\ insideCode
            THEN fixLoop(lines, i + 1, FALSE, fixed)
            ELSE fixLoop(lines, i + 1, insideCode, fixed)

fixCodeBlocks(text) == fixLoop(text, 1, FALSE, FALSE)

(***************************************************************************)
(* Comment texts.  A text is a sequence of lines; MARKER is one token.     *)
(***************************************************************************)
MARKER == "<!-- markdown-code-block-checker -->"

EMPTY_TEXT == << <<>> >>

\* String.prototype.includes(MARKER) on a text
includesMarker(text) ==
  \E k \in 1..Len(text) : \E c \in 1..Len(text[k]) : text[k][c] = MARKER

\* const type = event.issue ? "issue" : "pull request"
typeOf(kind) == IF kind = "issue" THEN "issue" ELSE "pull request"

\* the notice of the auto-fix variant
fixNotice(type) ==
  << <<MARKER>>,
     <<":information_source: All code blocks without a language in this", SP,
       type, SP, "description were set to python by default.">>,
     <<>>,
     <<"**You must check if the language was guessed correctly.**">>,
     <<>>,
     <<"> In the future, please specify the language">>,
     <<>>,
     <<"Example:">>,
     <<BT, BT, BT, BT, "markdown">>,
     PYTHON_FENCE,
     <<"print(\"hello world\")">>,
     FENCE,
     <<BT, BT, BT, BT>> >>

\* the report of the scan-only variant when errors were found
scanReport(type, errs) ==
  << <<MARKER>>,
     <<":warning: **Some code blocks in this", SP, type, SP,
       "description are missing a language identifier.**">>,
     <<>>,
     <<"Please specify a language after the opening triple backticks">>,
     <<BT, BT, BT, BT, "markdown">>,
     PYTHON_FENCE,
     <<"print(\"hello world\")">>,
     FENCE,
     <<BT, BT, BT, BT>>,
     <<>>,
     <<"**Details:**">>,
     FENCE >>
  \o errs
  \o << FENCE >>

\* the text of the scan-only variant when there is no error
scanAllOk ==
  << <<MARKER>>,
     <<":white_check_mark: All code blocks look OK!">> >>

(***************************************************************************)
(* Users and comments of the thread.                                       *)
(***************************************************************************)
ACTIONS_BOT == [type |-> "Bot", login |-> "github-actions[bot]"]

\* the users that trigger the workflows (GITHUB_ACTOR)
Actors == {"alice"}

PLAIN_TEXT == << <<"thanks">> >>

QUOTE_TEXT == << <<"quoting">>, <<">", SP, MARKER>> >>

\* what other users post: with the marker by another user and by the actor,
\* without it by another bot
OtherComments ==
  { [user |-> [type |-> "User", login |-> "carol"], body |-> QUOTE_TEXT],
    [user |-> [type |-> "User", login |-> "alice"], body |-> QUOTE_TEXT],
    [user |-> [type |-> "Bot", login |-> "dependabot[bot]"], body |-> PLAIN_TEXT] }

\* isBotComment without the test of the marker
isBotCommentAnyBody(comment, actor) ==
  /\ \/ comment.user.type = "Bot"
     \/ comment.user.login = "github-actions[bot]"
     \/ comment.user.login = actor
  /\ comment.body # EMPTY_TEXT

isBotComment(comment, actor) ==
  /\ \/ comment.user.type = "Bot"
     \/ comment.user.login = "github-actions[bot]"
     \/ comment.user.login = actor
  /\ comment.body # EMPTY_TEXT
  /\ includesMarker(comment.body)

Min(a, b) == IF a < b THEN a ELSE b

\* octokit.issues.listComments({per_page, page}) on the thread's comments
listComments(all, per_page, p) ==
  SubSeq(all, (p - 1) * per_page + 1, Min(p * per_page, Len(all)))

RECURSIVE firstBotComment(_, _, _)
\* the for ... of loop over one page: the first comment isBotComment accepts
firstBotComment(pageComments, k, actor) ==
  IF k > Len(pageComments) THEN <<>>
  ELSE IF isBotComment(pageComments[k], actor) THEN <<pageComments[k]>>
  ELSE firstBotComment(pageComments, k + 1, actor)

(***************************************************************************)
(* State.  The thread (body, kind, comments) lives in the remote service;  *)
(* the other variables are the locals of the running invocation.           *)
(***************************************************************************)
VARIABLES
  threadBody,      \* the stored body of the issue or pull request
  threadKind,      \* "issue" or "pr"
  comments,        \* the comments of the thread, oldest first
  pc,              \* position of the invocation
  variant,         \* "autofix" (lines 100-213) or "scan" (lines 237-370)
  actor,           \* process.env.GITHUB_ACTOR
  body,            \* the body read from the event payload
  errors,          \* the scan result
  fixedBody,
  fixed,
  commentBody,
  checkerComment,  \* <<>> for null, <<comment>> otherwise
  page,
  exitCode,        \* -1 while running
  calls,           \* the remote calls this invocation has issued
  prev,            \* the variant of the invocation that has just completed
                   \* without a failed call, "none" once anybody else acted
  rescan,          \* scan of the fixed body (pure-function runs only)
  env,             \* which of the required environment variables are set
  scanPos,         \* lines the scanner has read (line-by-line runs only)
  insideCode       \* the scanner's inside-fence flag (line-by-line runs only)

vars == <<threadBody, threadKind, comments, pc, variant, actor, body, errors,
          fixedBody, fixed, commentBody, checkerComment, page, exitCode,
          calls, prev, rescan, env, scanPos, insideCode>>

scanner == <<scanPos, insideCode>>

thread == <<threadBody, threadKind, comments>>

locals == <<body, errors, fixedBody, fixed, commentBody, checkerComment, page>>

\* comments other users add to a thread in Spec
MaxComments == 2

\* comments on a thread when a workflow starts
MaxThread == 11

NO_PREV == "none"

Call(op, id, text, newBody, ok) ==
  [op |-> op, id |-> id, text |-> text, newBody |-> newBody, ok |-> ok]

\* the id the service gives a new comment
FreshId == CHOOSE n \in 1..(Len(comments) + 1) :
             \A k \in 1..Len(comments) : comments[k].id # n

createCommentEffect(text) ==
  Append(comments, [id |-> FreshId, user |-> ACTIONS_BOT, body |-> text])

updateCommentEffect(id, text) ==
  [k \in 1..Len(comments) |->
     IF comments[k].id = id THEN [comments[k] EXCEPT !.body = text]
     ELSE comments[k]]

deleteCommentEffect(id) == SelectSeq(comments, LAMBDA c : c.id # id)

\* process.exit(code)
Exit(code) ==
  /\ pc' = "done"
  /\ exitCode' = code

\* a catch handler that logs the error and lets the process end normally
catchLogOnly == Exit(0)

\* a rejected remote call reaches main().catch: console.error, process.exit(1)
catch == Exit(1)

InitThread ==
  /\ threadBody \in RunBodies
  /\ threadKind \in {"issue", "pr"}
  /\ comments = <<>>

\* the three required environment variables: set or not
Envs == [token : BOOLEAN, repoFull : BOOLEAN, eventPath : BOOLEAN]

ENV_UNREAD == [token |-> TRUE, repoFull |-> TRUE, eventPath |-> TRUE]

\* envOk without the test of the event path
envOkNoEventPath(e) == e.token /\ e.repoFull

\* the negation of the test of lines 106 and 243
envOk(e) == e.token /\ e.repoFull /\ e.eventPath

InitLocals ==
  /\ env = ENV_UNREAD
  /\ scanPos = 0
  /\ insideCode = FALSE
  /\ variant = "none"
  /\ actor = "none"
  /\ body = EMPTY_TEXT
  /\ errors = <<>>
  /\ fixedBody = EMPTY_TEXT
  /\ fixed = FALSE
  /\ commentBody = EMPTY_TEXT
  /\ checkerComment = <<>>
  /\ page = 1
  /\ exitCode = -1
  /\ calls = <<>>
  /\ rescan = <<>>

Init ==
  /\ InitThread
  /\ InitLocals
  /\ pc = "idle"
  /\ prev = NO_PREV

(***************************************************************************)
(* Auto-fix variant, main (lines 100-208).                                 *)
(***************************************************************************)
\* lines 101-109 with a missing token, repository or event path
AfMissingEnv ==
  /\ pc = "idle"
  /\ \E e \in Envs :
       /\ ~envOk(e)
       /\ env' = e
  /\ variant' = "autofix"
  /\ calls' = <<>>
  /\ Exit(1)
  /\ UNCHANGED <<thread, locals, actor, prev, rescan, scanner>>

\* lines 101-150: read the event, scan, prepare the fixed body and the notice
AfStart(a) ==
  /\ pc = "idle"
  /\ Len(comments) <= MaxThread
  /\ \E e \in Envs :
       /\ envOk(e)
       /\ env' = e
  /\ variant' = "autofix"
  /\ actor' = a
  /\ body' = threadBody
  /\ errors' = findMissingLangBlocks(threadBody)
  /\ IF errors' # <<>>
     THEN /\ fixedBody' = fixCodeBlocks(threadBody).fixedBody
          /\ fixed' = fixCodeBlocks(threadBody).fixed
          /\ commentBody' = fixNotice(typeOf(threadKind))
     ELSE /\ fixedBody' = threadBody
          /\ fixed' = FALSE
          /\ commentBody' = EMPTY_TEXT
  /\ checkerComment' = <<>>
  /\ page' = 1
  /\ calls' = <<>>
  /\ exitCode' = -1
  /\ pc' = "lookup"
  /\ UNCHANGED <<thread, prev, rescan, scanner>>

\* one iteration of the while loop of the lookup (lines 80-95 and 293-308)
lookupStep(v) ==
  /\ pc = "lookup"
  /\ variant = v
  /\ \E ok \in BOOLEAN :
       /\ calls' = Append(calls, Call("listComments", page, EMPTY_TEXT, EMPTY_TEXT, ok))
       /\ IF ~ok
          THEN /\ catch
               /\ UNCHANGED <<checkerComment, page>>
          ELSE LET got == listComments(comments, LOAD_COMMENTS_PER_PAGE, page)
                   found == firstBotComment(got, 1, actor)
               IN IF Len(got) = 0
                  THEN /\ pc' = "decide"
                       /\ UNCHANGED <<checkerComment, page, exitCode>>
                  ELSE /\ checkerComment' = found
                       /\ IF found # <<>> \/ Len(got) < FULL_PAGE
                          THEN pc' = "decide" /\ page' = page
                          ELSE pc' = "lookup" /\ page' = page + 1
                       /\ UNCHANGED exitCode
  /\ UNCHANGED <<thread, variant, actor, body, errors, fixedBody, fixed,
                 commentBody, prev, rescan, env, scanner>>

\* getCheckerComment, lines 76-98
getCheckerComment == lookupStep("autofix")

\* an update of the comment whatever its text
contentChangedAlways(comment, text) == TRUE

\* checkerComment.body !== commentBody, lines 175 and 340
contentChanged(comment, text) == comment.body # text

\* line 156 without the tests of fixed and of the changed body
mustFixOnErrors == errors # <<>>

\* line 156
mustFix == errors # <<>> /\ fixed /\ body # fixedBody

\* AfUpdateBody with the failure of the update caught and ignored
AfUpdateBodySwallow ==
  /\ pc = "decide"
  /\ variant = "autofix"
  /\ mustFix
  /\ \E ok \in BOOLEAN :
       /\ calls' = Append(calls,
            Call(IF threadKind = "pr" THEN "pulls.update" ELSE "issues.update",
                 0, EMPTY_TEXT, fixedBody, ok))
       /\ threadBody' = IF ok THEN fixedBody ELSE threadBody
       /\ pc' = "upsert"
       /\ UNCHANGED exitCode
  /\ UNCHANGED <<threadKind, comments, locals, variant, actor, prev, rescan, env, scanner>>

\* lines 156-172: pulls.update or issues.update with the fixed body
AfUpdateBody ==
  /\ pc = "decide"
  /\ variant = "autofix"
  /\ mustFix
  /\ \E ok \in BOOLEAN :
       /\ calls' = Append(calls,
            Call(IF threadKind = "pr" THEN "pulls.update" ELSE "issues.update",
                 0, EMPTY_TEXT, fixedBody, ok))
       /\ IF ok
          THEN /\ threadBody' = fixedBody
               /\ pc' = "upsert"
               /\ UNCHANGED exitCode
          ELSE /\ catch
               /\ UNCHANGED threadBody
  /\ UNCHANGED <<threadKind, comments, locals, variant, actor, prev, rescan, env, scanner>>

\* lines 173-193: add or update the bot comment, then exit 0
AfUpsertComment ==
  /\ pc = "upsert"
  /\ variant = "autofix"
  /\ IF checkerComment # <<>>
     THEN IF contentChanged(checkerComment[1], commentBody)
          THEN \E ok \in BOOLEAN :
                 /\ calls' = Append(calls,
                      Call("updateComment", checkerComment[1].id, commentBody,
                           EMPTY_TEXT, ok))
                 /\ IF ok
                    THEN /\ comments' = updateCommentEffect(checkerComment[1].id,
                                                            commentBody)
                         /\ Exit(0)
                    ELSE /\ catch
                         /\ UNCHANGED comments
          ELSE /\ Exit(0)
               /\ UNCHANGED <<calls, comments>>
     ELSE \E ok \in BOOLEAN :
            /\ calls' = Append(calls,
                 Call("createComment", 0, commentBody, EMPTY_TEXT, ok))
            /\ IF ok
               THEN /\ comments' = createCommentEffect(commentBody)
                    /\ Exit(0)
               ELSE /\ catch
                    /\ UNCHANGED comments
  /\ UNCHANGED <<threadBody, threadKind, locals, variant, actor, prev, rescan, env, scanner>>

\* lines 194-202: everything is OK and there was a previous comment
AfDeleteComment ==
  /\ pc = "decide"
  /\ variant = "autofix"
  /\ ~mustFix
  /\ checkerComment # <<>> /\ errors = <<>>
  /\ \E ok \in BOOLEAN :
       /\ calls' = Append(calls,
            Call("deleteComment", checkerComment[1].id, EMPTY_TEXT, EMPTY_TEXT, ok))
       /\ IF ok
          THEN /\ comments' = deleteCommentEffect(checkerComment[1].id)
               /\ Exit(0)
          ELSE /\ catch
               /\ UNCHANGED comments
  /\ UNCHANGED <<threadBody, threadKind, locals, variant, actor, prev, rescan, env, scanner>>

\* lines 203-207: the final else
AfNothingToDo ==
  /\ pc = "decide"
  /\ variant = "autofix"
  /\ ~mustFix
  /\ ~(checkerComment # <<>> /\ errors = <<>>)
  /\ Exit(0)
  /\ UNCHANGED <<thread, locals, variant, actor, calls, prev, rescan, env, scanner>>

(***************************************************************************)
(* Scan-only variant, main (lines 237-365).                                *)
(***************************************************************************)
\* lines 238-246 with a missing token, repository or event path
ScMissingEnv ==
  /\ pc = "idle"
  /\ \E e \in Envs :
       /\ ~envOk(e)
       /\ env' = e
  /\ variant' = "scan"
  /\ calls' = <<>>
  /\ Exit(1)
  /\ UNCHANGED <<thread, locals, actor, prev, rescan, scanner>>

\* lines 238-287: read the event and scan the body inline
ScStart(a) ==
  /\ pc = "idle"
  /\ Len(comments) <= MaxThread
  /\ \E e \in Envs :
       /\ envOk(e)
       /\ env' = e
  /\ variant' = "scan"
  /\ actor' = a
  /\ body' = threadBody
  /\ errors' = inlineScan(threadBody)
  /\ fixedBody' = EMPTY_TEXT
  /\ fixed' = FALSE
  /\ commentBody' = EMPTY_TEXT
  /\ checkerComment' = <<>>
  /\ page' = 1
  /\ calls' = <<>>
  /\ exitCode' = -1
  /\ pc' = "lookup"
  /\ UNCHANGED <<thread, prev, rescan, scanner>>

\* the inline lookup loop, lines 290-309
ScLookup == lookupStep("scan")

\* composeCommentBody without the all-OK branch
composeCommentBodyAlwaysReport(type, errs) == scanReport(type, errs)

\* lines 312-335
composeCommentBody(type, errs) ==
  IF errs # <<>> THEN scanReport(type, errs) ELSE scanAllOk

\* lines 357-364
scanExitCode(errs) == IF errs # <<>> THEN 1 ELSE 0

\* lines 311-364: compose the comment, update or create it, exit
ScUpsertComment ==
  /\ pc = "decide"
  /\ variant = "scan"
  /\ commentBody' = composeCommentBody(typeOf(threadKind), errors)
  /\ IF checkerComment # <<>>
     THEN IF contentChanged(checkerComment[1], commentBody')
          THEN \E ok \in BOOLEAN :
                 /\ calls' = Append(calls,
                      Call("updateComment", checkerComment[1].id, commentBody',
                           EMPTY_TEXT, ok))
                 /\ IF ok
                    THEN /\ comments' = updateCommentEffect(checkerComment[1].id,
                                                            commentBody')
                         /\ Exit(scanExitCode(errors))
                    ELSE /\ catch
                         /\ UNCHANGED comments
          ELSE /\ Exit(scanExitCode(errors))
               /\ UNCHANGED <<calls, comments>>
     ELSE IF errors # <<>>
          THEN \E ok \in BOOLEAN :
                 /\ calls' = Append(calls,
                      Call("createComment", 0, commentBody', EMPTY_TEXT, ok))
                 /\ IF ok
                    THEN /\ comments' = createCommentEffect(commentBody')
                         /\ Exit(scanExitCode(errors))
                    ELSE /\ catch
                         /\ UNCHANGED comments
          ELSE /\ Exit(scanExitCode(errors))
               /\ UNCHANGED <<calls, comments>>
  /\ UNCHANGED <<threadBody, threadKind, variant, actor, body, errors,
                 fixedBody, fixed, checkerComment, page, prev, rescan, env, scanner>>

(***************************************************************************)
(* The environment: the process ends, other users edit and comment.        *)
(***************************************************************************)
isFailed(cs) == \E k \in 1..Len(cs) : ~cs[k].ok

\* the process has exited; the next event starts a fresh process
Finish ==
  /\ pc = "done"
  /\ pc' = "idle"
  /\ env' = ENV_UNREAD
  /\ prev' = IF isFailed(calls) \/ calls = <<>> THEN NO_PREV ELSE variant
  /\ variant' = "none"
  /\ actor' = "none"
  /\ body' = EMPTY_TEXT
  /\ errors' = <<>>
  /\ fixedBody' = EMPTY_TEXT
  /\ fixed' = FALSE
  /\ commentBody' = EMPTY_TEXT
  /\ checkerComment' = <<>>
  /\ page' = 1
  /\ exitCode' = -1
  /\ calls' = <<>>
  /\ UNCHANGED <<thread, rescan, scanner>>

\* somebody edits the description of the thread
EditBody ==
  /\ pc = "idle"
  /\ \E b \in RunBodies :
       /\ b # threadBody
       /\ threadBody' = b
  /\ prev' = NO_PREV
  /\ UNCHANGED <<threadKind, comments, locals, pc, variant, actor, exitCode,
                 calls, rescan, env, scanner>>

\* somebody else comments on the thread
OtherComment ==
  /\ pc = "idle"
  /\ Len(comments) < MaxComments
  /\ \E c \in OtherComments :
       comments' = Append(comments, [id |-> FreshId, user |-> c.user, body |-> c.body])
  /\ prev' = NO_PREV
  /\ UNCHANGED <<threadBody, threadKind, locals, pc, variant, actor, exitCode,
                 calls, rescan, env, scanner>>

\* one more ordinary comment on a long thread
PlainComment ==
  /\ pc = "idle"
  /\ Len(comments) < MaxThread
  /\ comments' = Append(comments,
       [id |-> FreshId, user |-> [type |-> "User", login |-> "carol"],
        body |-> PLAIN_TEXT])
  /\ prev' = NO_PREV
  /\ UNCHANGED <<threadBody, threadKind, locals, pc, variant, actor, exitCode,
                 calls, rescan, env, scanner>>

Next ==
  \/ \E a \in Actors : AfStart(a)
  \/ getCheckerComment
  \/ AfUpdateBody
  \/ AfUpsertComment
  \/ AfDeleteComment
  \/ AfNothingToDo
  \/ \E a \in Actors : ScStart(a)
  \/ ScLookup
  \/ ScUpsertComment
  \/ Finish
  \/ EditBody
  \/ OtherComment

Spec == Init /\ [][Next]_vars

(***************************************************************************)
(* Invocations with any subset of the required environment variables set,  *)
(* on threads nobody else touches.                                         *)
(***************************************************************************)
NextEnv ==
  \/ AfMissingEnv
  \/ \E a \in Actors : AfStart(a)
  \/ getCheckerComment
  \/ AfUpdateBody
  \/ AfUpsertComment
  \/ AfDeleteComment
  \/ AfNothingToDo
  \/ ScMissingEnv
  \/ \E a \in Actors : ScStart(a)
  \/ ScLookup
  \/ ScUpsertComment
  \/ Finish

SpecEnv == Init /\ [][NextEnv]_vars

(***************************************************************************)
(* Long threads: only ordinary comments are added, up to MaxThread, so     *)
(* that the lookup meets threads of more than one page.                    *)
(***************************************************************************)
NextPaging ==
  \/ \E a \in Actors : AfStart(a)
  \/ getCheckerComment
  \/ AfUpdateBody
  \/ AfUpsertComment
  \/ AfDeleteComment
  \/ AfNothingToDo
  \/ \E a \in Actors : ScStart(a)
  \/ ScLookup
  \/ ScUpsertComment
  \/ Finish
  \/ PlainComment

SpecPaging == Init /\ [][NextPaging]_vars

(***************************************************************************)
(* The scanner and the fix as functions: every body over LineSet of at     *)
(* most MaxLines lines is scanned (by either copy of the scanner), fixed,  *)
(* and the fixed body is scanned again.                                    *)
(***************************************************************************)
InitPure ==
  /\ env = ENV_UNREAD
  /\ scanPos = 0
  /\ insideCode = FALSE
  /\ variant = "none"
  /\ actor = "none"
  /\ body \in Bodies
  /\ errors = <<>>
  /\ fixedBody = EMPTY_TEXT
  /\ fixed = FALSE
  /\ commentBody = EMPTY_TEXT
  /\ checkerComment = <<>>
  /\ page = 1
  /\ exitCode = -1
  /\ calls = <<>>
  /\ rescan = <<>>
  /\ threadBody = EMPTY_TEXT
  /\ threadKind = "issue"
  /\ comments = <<>>
  /\ pc = "input"
  /\ prev = NO_PREV

pureFrame == <<thread, variant, actor, env, body, commentBody, checkerComment, page,
               exitCode, calls, prev>>

PureScan ==
  /\ pc = "input"
  /\ errors' = findMissingLangBlocks(body)
  /\ pc' = "scanned"
  /\ UNCHANGED <<pureFrame, fixedBody, fixed, rescan, scanner>>

PureInlineScan ==
  /\ pc = "input"
  /\ errors' = inlineScan(body)
  /\ pc' = "scanned"
  /\ UNCHANGED <<pureFrame, fixedBody, fixed, rescan, scanner>>

PureFix ==
  /\ pc = "scanned"
  /\ fixedBody' = fixCodeBlocks(body).fixedBody
  /\ fixed' = fixCodeBlocks(body).fixed
  /\ pc' = "fixed"
  /\ UNCHANGED <<pureFrame, errors, rescan, scanner>>

PureRescan ==
  /\ pc = "fixed"
  /\ rescan' = findMissingLangBlocks(fixedBody)
  /\ pc' = "rescanned"
  /\ UNCHANGED <<pureFrame, errors, fixedBody, fixed, scanner>>

NextPure ==
  \/ PureScan
  \/ PureInlineScan
  \/ PureFix
  \/ PureRescan

SpecPure == InitPure /\ [][NextPure]_vars

(***************************************************************************)
(* Reading an error message back: the line number between "Line " and the  *)
(* colon, the preview between the quotes.                                  *)
(***************************************************************************)
ColonAt(msg) == CHOOSE c \in 3..Len(msg) :
                  /\ msg[c] = ":"
                  /\ \A k \in 3..(c - 1) : msg[k] # ":"

DigitValue(d) == CHOOSE v \in 0..9 : DIGITS[v + 1] = d

RECURSIVE fromDecimal(_)
fromDecimal(ds) ==
  IF Len(ds) = 0 THEN 0
  ELSE 10 * fromDecimal(SubSeq(ds, 1, Len(ds) - 1)) + DigitValue(ds[Len(ds)])

LineOf(msg) == fromDecimal(SubSeq(msg, 3, ColonAt(msg) - 1))

PreviewOf(msg) == SubSeq(msg, ColonAt(msg) + 5, Len(msg) - 1)

(***************************************************************************)
(* Fences by counting: a marker line is a line with three backticks at     *)
(* column 0; it opens a fence when an even number of marker lines precede  *)
(* it; its language token is empty when nothing or whitespace follows the  *)
(* backticks.                                                              *)
(***************************************************************************)
IsMarkerLine(line) == Len(line) >= 3 /\ line[1] = BT /\ line[2] = BT /\ line[3] = BT

MarkersBefore(text, i) == Cardinality({k \in 1..(i - 1) : IsMarkerLine(text[k])})

IsFenceOpen(text, i) == IsMarkerLine(text[i]) /\ MarkersBefore(text, i) % 2 = 0

HasEmptyToken(line) == Len(line) = 3 \/ line[4] = SP

UnlabelledOpens(text) ==
  {i \in 1..Len(text) : IsFenceOpen(text, i) /\ HasEmptyToken(text[i])}

\* C1: the scanner returns exactly one violation per fence-open line with an
\* empty language token, with its 1-based line number, in ascending order,
\* and nothing else; so the result is empty iff every fence-open line carries
\* a language token.
C1_ScanReportsUnlabelledOpens ==
  pc \in {"scanned", "fixed", "rescanned"} =>
    /\ Len(errors) = Cardinality(UnlabelledOpens(body))
    /\ \A k \in 1..Len(errors) : LineOf(errors[k]) \in UnlabelledOpens(body)
    /\ \A k \in 1..(Len(errors) - 1) : LineOf(errors[k]) < LineOf(errors[k + 1])
    /\ (errors = <<>>) <=>
         (\A i \in 1..Len(body) : IsFenceOpen(body, i) => ~HasEmptyToken(body[i]))

\* a body with two bare markers, the second closing the fence the first opens,
\* has been scanned: one violation
C1_Witness ==
  /\ pc = "scanned"
  /\ Len(errors) = 1
  /\ Cardinality({i \in 1..Len(body) : IsMarkerLine(body[i]) /\ HasEmptyToken(body[i])}) = 2

\* C2: fixCodeBlocks rewrites exactly the fence-open lines with an empty
\* language token and leaves every other line unchanged.
C2_FixRewritesExactlyUnlabelledOpens ==
  pc \in {"fixed", "rescanned"} =>
    /\ Len(fixedBody) = Len(body)
    /\ \A i \in 1..Len(body) :
         fixedBody[i] = IF i \in UnlabelledOpens(body) THEN PYTHON_FENCE ELSE body[i]

\* C3: on a body the scanner reports no violation for, fixCodeBlocks returns
\* fixed = false and the body unchanged.
C3_FixLeavesCleanBodyAlone ==
  (pc \in {"fixed", "rescanned"} /\ errors = <<>>) =>
    (fixed = FALSE /\ fixedBody = body)

\* C4: scanning the output of fixCodeBlocks yields no violation.
C4_FixedBodyScansClean ==
  pc = "rescanned" => rescan = <<>>

RECURSIVE FirstCodeLine(_, _)
\* the first non-blank line from j on, up to the next marker line
FirstCodeLine(text, j) ==
  IF j > Len(text) THEN <<>>
  ELSE IF IsMarkerLine(text[j]) THEN <<>>
  ELSE IF trim(text[j]) # <<>> THEN trim(text[j])
  ELSE FirstCodeLine(text, j + 1)

\* C10: the preview of a violation is the trimmed first non-blank line
\* between the fence-open and its close marker, and empty when there is none.
C10_PreviewStopsAtClose ==
  pc \in {"scanned", "fixed", "rescanned"} =>
    \A k \in 1..Len(errors) :
      PreviewOf(errors[k]) = truncatePreview(FirstCodeLine(body, LineOf(errors[k]) + 1))

(***************************************************************************)
(* The calls of an invocation.                                             *)
(***************************************************************************)
CallsOf(op) == SelectSeq(calls, LAMBDA c : c.op = op)

BodyUpdates == CallsOf("pulls.update") \o CallsOf("issues.update")

Mutations == SelectSeq(calls, LAMBDA c : c.op # "listComments")

\* the invocation has ended after a lookup that succeeded and returned
NormalEnd == pc = "done" /\ calls # <<>> /\ calls[1].ok

\* C5 as stated: in both variants, an empty scan result and an existing
\* status comment give exactly one deleteComment of that comment, no create
\* or update, and exit code 0 (read for invocations whose calls all succeed).
C5_CleanThreadDeletesComment ==
  (NormalEnd /\ ~isFailed(calls) /\ errors = <<>> /\ checkerComment # <<>>) =>
    /\ Len(CallsOf("deleteComment")) = 1
    /\ CallsOf("deleteComment")[1].id = checkerComment[1].id
    /\ CallsOf("createComment") = <<>>
    /\ CallsOf("updateComment") = <<>>
    /\ exitCode = 0

\* C5 amended: with an empty scan result and an existing status comment, the
\* auto-fix variant issues exactly one deleteComment of that comment and no
\* create or update; the scan-only variant issues no delete and no create,
\* and one updateComment setting that comment to the all-OK text exactly when
\* its text differs from it; the exit code is 0 unless the issued call fails.
C5_CleanThreadDeletesOrUpdates ==
  (NormalEnd /\ errors = <<>> /\ checkerComment # <<>>) =>
    /\ CallsOf("createComment") = <<>>
    /\ BodyUpdates = <<>>
    /\ exitCode = IF isFailed(calls) THEN 1 ELSE 0
    /\ variant = "autofix" =>
         /\ Len(CallsOf("deleteComment")) = 1
         /\ CallsOf("deleteComment")[1].id = checkerComment[1].id
         /\ CallsOf("updateComment") = <<>>
    /\ variant = "scan" =>
         /\ CallsOf("deleteComment") = <<>>
         /\ IF checkerComment[1].body # scanAllOk
            THEN /\ Len(CallsOf("updateComment")) = 1
                 /\ CallsOf("updateComment")[1].id = checkerComment[1].id
                 /\ CallsOf("updateComment")[1].text = scanAllOk
            ELSE CallsOf("updateComment") = <<>>

\* the scan-only variant has updated the status comment of a clean thread
C5_Witness ==
  /\ NormalEnd /\ errors = <<>> /\ checkerComment # <<>>
  /\ variant = "scan"
  /\ Len(CallsOf("updateComment")) = 1
  /\ exitCode = 0

\* C6: in both variants, a non-empty scan result and no existing status
\* comment give exactly one createComment whose text begins with the marker
\* (read for invocations whose calls all succeed).
C6_ViolationsCreateComment ==
  (NormalEnd /\ ~isFailed(calls) /\ errors # <<>> /\ checkerComment = <<>>) =>
    /\ Len(CallsOf("createComment")) = 1
    /\ CallsOf("createComment")[1].text[1] = <<MARKER>>

\* the first comment of the thread the invocation's actor would accept
FirstQualifying ==
  CHOOSE k \in 1..Len(comments) :
    /\ isBotComment(comments[k], actor)
    /\ \A j \in 1..(k - 1) : ~isBotComment(comments[j], actor)

\* C7: whenever a comment of the thread qualifies, the lookup returns the
\* earliest qualifying one, whatever the number of comments.
C7_LookupFindsEarliestQualifying ==
  (pc = "decide" /\ \E k \in 1..Len(comments) : isBotComment(comments[k], actor)) =>
    checkerComment = <<comments[FirstQualifying]>>

\* C8: exit code 0 only when the body was clean or its violations were fixed
\* by a body update; exit code 1 whenever violations were found and no fix
\* was applied and whenever a remote call fails.
C8_ExitContract ==
  (pc = "done" /\ calls # <<>>) =>
    /\ exitCode = 0 => (errors = <<>> \/ BodyUpdates # <<>>)
    /\ (errors # <<>> /\ BodyUpdates = <<>>) => exitCode = 1
    /\ isFailed(calls) => exitCode = 1

\* C9: an invocation that follows a completed invocation of the same variant,
\* nobody else having acted in between, issues no remote mutation.
C9_SecondInvocationIsQuiet ==
  (prev # NO_PREV /\ prev = variant) => Mutations = <<>>

IsBodyUpdate(c) == c.op \in {"pulls.update", "issues.update"}

IsCommentUpsert(c) == c.op \in {"createComment", "updateComment"}

IsCommentMutation(c) == c.op \in {"createComment", "updateComment", "deleteComment"}

\* C11: in the auto-fix workflow a comment create or update is issued only
\* after a body update that succeeded; when the body update fails no comment
\* call is issued and the exit code is 1; when the comment call fails after
\* the body update, the exit code is 1 and the thread keeps the fixed body.
C11_BodyUpdateBeforeComment ==
  variant = "autofix" =>
    /\ \A k \in 1..Len(calls) :
         IsCommentUpsert(calls[k]) =>
           \E j \in 1..(k - 1) : IsBodyUpdate(calls[j]) /\ calls[j].ok
    /\ \A j \in 1..Len(calls) :
         (IsBodyUpdate(calls[j]) /\ ~calls[j].ok) =>
           /\ \A k \in 1..Len(calls) : ~IsCommentMutation(calls[k])
           /\ pc = "done" /\ exitCode = 1
    /\ \A j, k \in 1..Len(calls) :
         (IsBodyUpdate(calls[j]) /\ calls[j].ok /\ IsCommentUpsert(calls[k]) /\ ~calls[k].ok) =>
           /\ pc = "done" /\ exitCode = 1
           /\ threadBody = calls[j].newBody
           /\ threadBody # body

\* the comment call has failed after the body was updated
C11_Witness ==
  /\ variant = "autofix" /\ pc = "done" /\ exitCode = 1
  /\ \E j, k \in 1..Len(calls) :
       /\ j < k
       /\ IsBodyUpdate(calls[j]) /\ calls[j].ok
       /\ calls[k].op = "createComment" /\ ~calls[k].ok
  /\ threadBody = fixedBody /\ threadBody # body

\* C12: a failed remote call is the last call of its invocation, and the
\* invocation has then ended with exit code 1, in both variants.
C12_FailureEndsInvocation ==
  \A k \in 1..Len(calls) :
    ~calls[k].ok =>
      /\ k = Len(calls)
      /\ pc = "done"
      /\ exitCode = 1

\* the scan-only variant has ended on a failed comment update of a clean thread
C12_Witness ==
  /\ variant = "scan" /\ pc = "done" /\ exitCode = 1
  /\ errors = <<>>
  /\ Len(calls) = 2
  /\ calls[1].op = "listComments" /\ calls[1].ok
  /\ calls[2].op = "updateComment" /\ ~calls[2].ok

\* the lines after line i that are non-blank and are not marker lines
TextLinesAfter(text, i) ==
  {j \in (i + 1)..Len(text) : trim(text[j]) # <<>> /\ ~IsMarkerLine(text[j])}

FirstTextLineAfter(text, i) ==
  CHOOSE j \in TextLinesAfter(text, i) : \A m \in TextLinesAfter(text, i) : j <= m

\* C13: when the first non-blank, non-fence line after an unlabelled
\* fence-open has more than 50 characters after trimming, the preview is its
\* first 50 characters followed by "..."; otherwise it is the trimmed line.
C13_PreviewTruncatedAt50 ==
  pc \in {"scanned", "fixed", "rescanned"} =>
    \A k \in 1..Len(errors) :
      TextLinesAfter(body, LineOf(errors[k])) # {} =>
        LET src == trim(body[FirstTextLineAfter(body, LineOf(errors[k]))])
        IN IF Len(src) > 50
           THEN /\ Len(PreviewOf(errors[k])) = 53
                /\ SubSeq(PreviewOf(errors[k]), 1, 50) = SubSeq(src, 1, 50)
                /\ SubSeq(PreviewOf(errors[k]), 51, 53) = <<".", ".", ".">>
           ELSE PreviewOf(errors[k]) = src

\* a violation whose code line has 51 characters has been recorded, cut
C13_Witness ==
  /\ pc = "scanned"
  /\ \E k \in 1..Len(errors) :
       /\ TextLinesAfter(body, LineOf(errors[k])) # {}
       /\ Len(trim(body[FirstTextLineAfter(body, LineOf(errors[k]))])) = 51
       /\ Len(PreviewOf(errors[k])) = 53

\* C14: when the token, the repository or the event path is missing, the
\* invocation has ended with exit code 1 and has issued no remote call.
C14_MissingEnvExitsBeforeCalls ==
  (pc # "idle" /\ (~env.token \/ ~env.repoFull \/ ~env.eventPath)) =>
    /\ pc = "done"
    /\ exitCode = 1
    /\ calls = <<>>

\* the scan-only variant was started without the event path on a thread
\* with violations
C14_Witness ==
  /\ pc = "done" /\ variant = "scan"
  /\ env.token /\ env.repoFull /\ ~env.eventPath
  /\ UnlabelledOpens(threadBody) # {}
  /\ exitCode = 1

\* C15: no updateComment carries the text the comment returned by the lookup
\* already has, and when the newly built text equals that text the invocation
\* issues no comment mutation at all.
C15_UpdateOnlyIfDifferent ==
  /\ \A k \in 1..Len(calls) :
       calls[k].op = "updateComment" =>
         /\ checkerComment # <<>>
         /\ calls[k].text # checkerComment[1].body
  /\ (pc = "done" /\ checkerComment # <<>> /\ checkerComment[1].body = commentBody) =>
       \A k \in 1..Len(calls) : ~IsCommentMutation(calls[k])

\* the scan-only variant found its own report unchanged and issued nothing
C15_Witness ==
  /\ pc = "done" /\ variant = "scan"
  /\ errors # <<>>
  /\ checkerComment # <<>> /\ checkerComment[1].body = commentBody
  /\ Len(calls) = 1
  /\ exitCode = 1

(***************************************************************************)
(* The scanner line by line: scanPos lines of body have been read,         *)
(* insideCode and errors are the loop's variables after them.              *)
(***************************************************************************)
\* scanLine closing a fence only on a bare marker
scanLineCloseOnBare(lines, i, st) ==
  IF matchScan(lines[i])
  THEN IF ~st.insideCode
       THEN [insideCode |-> TRUE,
             errors |-> IF captureLang(lines[i]) = <<>>
                        THEN Append(st.errors,
                               ErrorMessage(i, truncatePreview(previewLoop(lines, i + 1))))
                        ELSE st.errors]
       ELSE [insideCode |-> captureLang(lines[i]) # <<>>, errors |-> st.errors]
  ELSE st

\* one iteration of the for loop of lines 45-72 (and 260-287) on line i
scanLine(lines, i, st) ==
  IF matchScan(lines[i])
  THEN IF ~st.insideCode
       THEN [insideCode |-> TRUE,
             errors |-> IF captureLang(lines[i]) = <<>>
                        THEN Append(st.errors,
                               ErrorMessage(i, truncatePreview(previewLoop(lines, i + 1))))
                        ELSE st.errors]
       ELSE [insideCode |-> FALSE, errors |-> st.errors]
  ELSE st

InitScan ==
  /\ env = ENV_UNREAD
  /\ variant = "none"
  /\ actor = "none"
  /\ body \in Bodies
  /\ scanPos = 0
  /\ insideCode = FALSE
  /\ errors = <<>>
  /\ fixedBody = EMPTY_TEXT
  /\ fixed = FALSE
  /\ commentBody = EMPTY_TEXT
  /\ checkerComment = <<>>
  /\ page = 1
  /\ exitCode = -1
  /\ calls = <<>>
  /\ rescan = <<>>
  /\ threadBody = EMPTY_TEXT
  /\ threadKind = "issue"
  /\ comments = <<>>
  /\ pc = "scanning"
  /\ prev = NO_PREV

\* the loop reads the next line
ScanLine ==
  /\ pc = "scanning"
  /\ scanPos < Len(body)
  /\ LET st == scanLine(body, scanPos + 1,
                        [insideCode |-> insideCode, errors |-> errors])
     IN /\ insideCode' = st.insideCode
        /\ errors' = st.errors
  /\ scanPos' = scanPos + 1
  /\ UNCHANGED <<pureFrame, pc, fixedBody, fixed, rescan>>

\* the loop is over: return errors
ScanReturn ==
  /\ pc = "scanning"
  /\ scanPos = Len(body)
  /\ pc' = "returned"
  /\ UNCHANGED <<pureFrame, errors, fixedBody, fixed, rescan, scanner>>

NextScan ==
  \/ ScanLine
  \/ ScanReturn

SpecScan == InitScan /\ [][NextScan]_vars

\* the line-by-line scanner returns what findMissingLangBlocks returns
ScanLineAgrees == pc = "returned" => errors = findMissingLangBlocks(body)

\* C16: after any prefix of the body the inside-fence flag is true exactly
\* when the prefix holds an odd number of lines starting with three backticks
\* at column 0 (so a marker read inside a fence closes it whatever follows
\* the backticks, and an indented marker changes nothing), and every recorded
\* violation is at a marker line read outside a fence.
C16_FlagAlternatesStrictly ==
  pc \in {"scanning", "returned"} =>
    /\ insideCode <=> (MarkersBefore(body, scanPos + 1) % 2 = 1)
    /\ \A k \in 1..Len(errors) :
         /\ LineOf(errors[k]) <= scanPos
         /\ IsMarkerLine(body[LineOf(errors[k])])
         /\ MarkersBefore(body, LineOf(errors[k])) % 2 = 0

\* a labelled marker has closed the fence a bare marker opened, and an
\* indented marker read after it has left the flag false
C16_Witness ==
  /\ pc = "scanning" /\ scanPos = 3
  /\ body[1] = FENCE
  /\ IsMarkerLine(body[2]) /\ ~HasEmptyToken(body[2])
  /\ body[3] = <<SP>> \o FENCE
  /\ ~insideCode
  /\ Len(errors) = 1

\* the comments of the thread written by the checker
CheckerComments ==
  {k \in 1..Len(comments) :
     comments[k].user = ACTIONS_BOT /\ includesMarker(comments[k].body)}

\* C17: the thread holds at most one comment created by the checker.
C17_AtMostOneCheckerComment == Cardinality(CheckerComments) <= 1

\* the marker is somewhere in the text
HasMarker(text) ==
  \E l \in 1..Len(text) : MARKER \in {text[l][c] : c \in 1..Len(text[l])}

\* the comment is one the invocation of the given actor may take for its own
OwnComment(c, a) ==
  /\ HasMarker(c.body)
  /\ c.user.type = "Bot" \/ c.user.login \in {"github-actions[bot]", a}

\* the update and delete calls issued so far target the comment the lookup
\* returned, which is an own comment; at most one comment mutation is issued
OwnTargetsOnly ==
  /\ \A k \in 1..Len(calls) :
       calls[k].op \in {"updateComment", "deleteComment"} =>
         /\ checkerComment # <<>>
         /\ calls[k].id = checkerComment[1].id
         /\ OwnComment(checkerComment[1], actor)
  /\ Cardinality({k \in 1..Len(calls) : IsCommentMutation(calls[k])}) <= 1

\* C18: every updateComment and deleteComment targets the comment the lookup
\* returned, whose text as read holds the marker and whose author has type
\* Bot, the login github-actions[bot] or the login of the actor; a comment
\* without the marker or by another author is on the thread, unchanged,
\* after every step; an invocation issues at most one comment mutation.
C18_MutatesOnlyOwnComment ==
  [][ /\ OwnTargetsOnly'
      /\ \A k \in 1..Len(comments) :
           ~OwnComment(comments[k], actor) =>
             \E j \in 1..Len(comments') : comments'[j] = comments[k]
    ]_vars

\* the quoting comment of the actor was taken for the status comment and
\* deleted; the quoting comment of another user, older, stays
C18_Witness ==
  /\ pc = "done" /\ exitCode = 0
  /\ Len(CallsOf("deleteComment")) = 1
  /\ checkerComment # <<>>
  /\ checkerComment[1].user = [type |-> "User", login |-> "alice"]
  /\ Len(comments) = 1
  /\ comments[1].user.login = "carol" /\ comments[1].body = QUOTE_TEXT
  /\ comments[1].id < checkerComment[1].id

\* the invocation has read its environment and the event
Running == pc # "idle" /\ env.token /\ env.repoFull /\ env.eventPath

\* C19: a body update is issued by the auto-fix variant only, only when the
\* scanner reported a violation and the rewritten text differs from the
\* body, it stores fixCodeBlocks(body).fixedBody, and there is at most one
\* per invocation; a body with an empty scan result is not modified; the
\* scan-only variant issues no body update.
C19_BodyUpdateOnlyWhenFixed ==
  Running =>
    /\ \A k \in 1..Len(calls) :
         IsBodyUpdate(calls[k]) =>
           /\ variant = "autofix"
           /\ errors # <<>> /\ UnlabelledOpens(body) # {}
           /\ calls[k].newBody = fixCodeBlocks(body).fixedBody
           /\ calls[k].newBody # body
    /\ Cardinality({k \in 1..Len(calls) : IsBodyUpdate(calls[k])}) <= 1
    /\ UnlabelledOpens(body) = {} =>
         (threadBody = body /\ \A k \in 1..Len(calls) : ~IsBodyUpdate(calls[k]))
    /\ variant = "scan" =>
         (threadBody = body /\ \A k \in 1..Len(calls) : ~IsBodyUpdate(calls[k]))
    /\ threadBody # body =>
         \E k \in 1..Len(calls) :
           IsBodyUpdate(calls[k]) /\ calls[k].ok /\ threadBody = calls[k].newBody

\* the auto-fix variant has stored the fixed body of a pull request
C19_Witness ==
  /\ pc = "done" /\ variant = "autofix" /\ exitCode = 0
  /\ Len(CallsOf("pulls.update")) = 1
  /\ CallsOf("pulls.update")[1].ok
  /\ threadBody = fixCodeBlocks(body).fixedBody
  /\ threadBody # body

====
